---- MODULE Spec2Model ----
(***************************************************************************)
(* Verification-correction control loop of the RAG pipeline                *)
(* (src/src/core/rag_pipeline.py, rag_with_fact_checking) together with    *)
(* the collaborators it calls: the retriever, the prompt builders, the     *)
(* generator wrapper llm_inference, the two verify_answer implementations  *)
(* and the two correct_answer implementations of the repository.           *)
(*                                                                         *)
(* Texts are sequences of tokens: a generated text is <<"t1">> or          *)
(* <<"t2">>, string concatenation is \o, so an appended caveat or an       *)
(* error prefix is visible in the value.                                   *)
(*                                                                         *)
(* A second part follows one call of FactChecker.verify_answer             *)
(* (src/src/verification/fact_checker.py) through its rule layer, its      *)
(* semantic layer and the combination of the two.                          *)
(***************************************************************************)
EXTENDS Integers, Sequences, FiniteSets, TLC

\* ---------------------------------------------------------------- bounds
\* largest max_correction_rounds the caller passes
MaxRounds == 2
\* largest number of chunks the retriever returns
MaxChunks == 1

\* ------------------------------------------------------------ text values
\* result["final_answer"] of the empty-retrieval short circuit
Refusal == <<"REFUSAL">>

\* the string llm_inference returns when the adapter reports an error or
\* the call raises ("抱歉，生成回答时出现错误: ..." / "系统错误: ...")
LLMError == <<"LLM_ERROR">>

\* the suffix "\n\n[注意：纠正过程中出现错误，以上为原始回答]"
Caveat == <<"CAVEAT">>

\* texts the adapter can return in result['text'] (the empty text included)
LLMTexts == {<< >>, <<"t1">>, <<"t2">>}

\* every value llm_inference can return: it has a blanket handler and
\* never raises
llm_inference == LLMTexts \cup {LLMError}

\* f"系统出错：流程执行出错：{str(e)}"
SystemError(e) == <<"SYSTEM_ERROR", e>>

\* error description lists a verification pass can return
ErrorLists == {<< >>, <<"e1">>}

\* the list [f"验证过程异常: {str(e)}"]
VerifyExceptionErrors == <<"verify_exception">>

\* lists of chunks retrieve_similar_chunks can return ([] on any failure)
ChunkLists == {[i \in 1..n |-> "chunk"] : n \in 0..MaxChunks}

\* the implementations of verify_answer and correct_answer in the tree
Verifiers == {"verification", "llm2"}
Correctors == {"correction", "correction2.0"}

\* exception classes the modelled steps raise; all derive from Exception
Exceptions == {"RuntimeError", "AttributeError", "TypeError", "KeyError"}

Last(s) == s[Len(s)]

VARIABLES
    max_correction_rounds,  \* argument of rag_with_fact_checking
    verifier,               \* implementation bound to verify_answer
    corrector,              \* implementation bound to correct_answer
    pc,                     \* position in rag_with_fact_checking
    result,                 \* the result dictionary
    process_log,            \* local list process_log
    retrieved_chunks,       \* local retrieved_chunks
    current_answer,         \* local current_answer
    correction_round,       \* local correction_round
    has_hallucination,      \* local has_幻觉
    errors,                 \* local errors
    correction_history,     \* local correction_history
    exc,                    \* exception in flight / handled ("none" if none)
    calls,                  \* trace of the calls made to collaborators
    cancel_requested,       \* the caller has asked for the run to be cancelled
    fc_pc,                  \* position in FactChecker.verify_answer
    verification_level,     \* argument verification_level of verify_answer
    rule_issues,            \* issues the three rule checks find in the input
    content_missing,        \* some chunk has no 'content' key
    api_outcome,            \* what the DeepSeek request of this call does
    threshold,              \* hallucination threshold in force
    basic_result,           \* local basic_result
    semantic_result,        \* local semantic_result (None: ran = FALSE)
    final_result,           \* the dictionary verify_answer returns
    nc_pc,                  \* position in the rule layer followed on a text
    nc_answer,              \* argument answer, a string of characters
    contents,               \* chunk['content'] of every chunk, in order
    numbers,                \* key_info['numbers']
    cs_pc,                  \* position in the claim check of one sentence
    claim_words,            \* claim.split() of the sentence
    key_claims,             \* key_info['claims']
    claim_issues,           \* issues of _verify_claims
    ts_pc,                  \* position in TextSplitter._split_text_by_size
    ts_text,                \* argument text
    chunk_size,             \* self.chunk_size
    chunk_overlap,          \* self.chunk_overlap
    ts_start,               \* local start
    ts_iter,                \* iterations of the while loop so far
    ts_chunks               \* local chunks, each as its <<start, end>>

vars == <<max_correction_rounds, verifier, corrector, pc, result, process_log,
          retrieved_chunks, current_answer, correction_round,
          has_hallucination, errors, correction_history, exc, calls,
          cancel_requested, fc_pc, verification_level, rule_issues,
          content_missing, api_outcome, threshold, basic_result,
          semantic_result, final_result, nc_pc, nc_answer, contents, numbers,
          cs_pc, claim_words, key_claims, claim_issues, ts_pc, ts_text, chunk_size,
          chunk_overlap, ts_start, ts_iter, ts_chunks>>

\* the state of one run of rag_with_fact_checking and of its caller
ctl_vars == <<max_correction_rounds, verifier, corrector, pc, result,
              process_log, retrieved_chunks, current_answer, correction_round,
              has_hallucination, errors, correction_history, exc, calls,
              cancel_requested>>

\* the state of one call of FactChecker.verify_answer
fc_vars == <<fc_pc, verification_level, rule_issues, content_missing,
             api_outcome, threshold, basic_result, semantic_result,
             final_result>>

\* the rule layer followed character by character
nc_vars == <<nc_pc, nc_answer, contents, numbers>>

\* the claim check followed on the words of one sentence
cs_vars == <<cs_pc, claim_words, key_claims, claim_issues>>

\* one call of TextSplitter._split_text_by_size
ts_vars == <<ts_pc, ts_text, chunk_size, chunk_overlap, ts_start, ts_iter,
            ts_chunks>>

\* the number check is not being followed
NCIdle ==
    /\ nc_pc = "idle"
    /\ nc_answer = << >>
    /\ contents = << >>
    /\ numbers = << >>

\* the claim check is not being followed
CSIdle ==
    /\ cs_pc = "idle"
    /\ claim_words = << >>
    /\ key_claims = << >>
    /\ claim_issues = << >>

\* the splitter is not being followed
TSIdle ==
    /\ ts_pc = "idle"
    /\ ts_text = << >>
    /\ chunk_size = 1
    /\ chunk_overlap = 0
    /\ ts_start = 0
    /\ ts_iter = 0
    /\ ts_chunks = << >>

\* the state of the parts that are followed on their own
aux_vars == <<nc_vars, cs_vars, ts_vars>>

\* none of these parts is being followed
AuxIdle == NCIdle /\ CSIdle /\ TSIdle

\* a layer result before the layer has run
NoResult == [ran |-> FALSE, issues |-> << >>, confidence |-> 0]

\* no call of FactChecker.verify_answer is being followed
FCIdle ==
    /\ fc_pc = "idle"
    /\ verification_level = "comprehensive"
    /\ rule_issues = [numbers |-> << >>, entities |-> << >>, claims |-> << >>]
    /\ content_missing = FALSE
    /\ api_outcome = [kind |-> "no_key", raw |-> 0]
    /\ threshold = 0
    /\ basic_result = NoResult
    /\ semantic_result = NoResult
    /\ final_result = [has_hallucination |-> FALSE, confidence_score |-> 0,
                       error_descriptions |-> << >>]

\* one entry of the call trace: the collaborator, the answer passed to it,
\* how the call ended and what it returned
Call(op, arg, out, val) == [op |-> op, arg |-> arg, out |-> out, val |-> val]

Log(msg, n) == <<msg, n>>

\* ------------------------------------------------------------------ Init
Init ==
    /\ max_correction_rounds \in 0..MaxRounds
    /\ verifier \in Verifiers
    /\ corrector \in Correctors
    /\ pc = "construct"
    /\ result = [final_answer |-> << >>, initial_answer |-> << >>,
                 retrieved_chunks |-> << >>, correction_history |-> << >>,
                 has_hallucination |-> FALSE, process_log |-> << >>]
    /\ process_log = <<Log("retrieve_start", 0)>>
    /\ retrieved_chunks = << >>
    /\ current_answer = << >>
    /\ correction_round = 0
    /\ has_hallucination = FALSE
    /\ errors = << >>
    /\ correction_history = << >>
    /\ exc = "none"
    /\ calls = << >>
    /\ cancel_requested = FALSE
    /\ FCIdle
    /\ AuxIdle

\* an exception e leaves the try block at the current step
Raise(e, call) ==
    /\ exc' = e
    /\ pc' = "except"
    /\ calls' = Append(calls, call)
    /\ UNCHANGED <<cancel_requested, fc_vars, aux_vars, max_correction_rounds, verifier, corrector, result,
                   process_log, retrieved_chunks, current_answer,
                   correction_round, has_hallucination, errors,
                   correction_history>>

\* ChromaRetriever(db_path=..., collection_name=...): _initialize_components
\* re-raises whatever goes wrong
ConstructRetriever ==
    /\ pc = "construct"
    /\ \/ /\ pc' = "retrieve"
          /\ calls' = Append(calls, Call("construct", << >>, "ok", << >>))
          /\ UNCHANGED <<cancel_requested, fc_vars, aux_vars, max_correction_rounds, verifier, corrector, result,
                         process_log, retrieved_chunks, current_answer,
                         correction_round, has_hallucination, errors,
                         correction_history, exc>>
       \/ Raise("RuntimeError", Call("construct", << >>, "raise", << >>))

\* the emptiness test dropped: an empty retrieval goes on to generation
RetrievedEmpty_Mutant(chunks) == FALSE

\* `if not retrieved_chunks`
RetrievedEmpty(chunks) == chunks = << >>

\* retriever.retrieve_similar_chunks(query, top_k=config.TOP_K) and the
\* empty-retrieval short circuit
Retrieve ==
    /\ pc = "retrieve"
    /\ \/ Raise("AttributeError", Call("retrieve", << >>, "raise", << >>))
       \/ \E chunks \in ChunkLists :
            LET log1 == Append(process_log, Log("retrieve_done", Len(chunks)))
            IN  /\ retrieved_chunks' = chunks
                /\ IF RetrievedEmpty(chunks)
                   THEN /\ process_log' = Append(log1, Log("no_chunks", 0))
                        /\ result' = [result EXCEPT
                               !.retrieved_chunks = chunks,
                               !.final_answer = Refusal,
                               !.process_log = process_log']
                        /\ pc' = "done"
                   ELSE /\ process_log' = Append(log1, Log("generate_start", 0))
                        /\ result' = [result EXCEPT !.retrieved_chunks = chunks]
                        /\ pc' = "initial_prompt"
                /\ calls' = Append(calls,
                        Call("retrieve", << >>,
                             IF chunks = << >> THEN "empty" ELSE "chunks", << >>))
                /\ UNCHANGED <<cancel_requested, fc_vars, aux_vars, max_correction_rounds, verifier, corrector,
                               current_answer, correction_round,
                               has_hallucination, errors, correction_history,
                               exc>>

\* get_initial_prompt(query=query, chunks=retrieved_chunks)
BuildInitialPrompt ==
    /\ pc = "initial_prompt"
    /\ \/ /\ process_log' = Append(process_log, Log("prompt_done", 0))
          /\ pc' = "generate"
          /\ calls' = Append(calls, Call("initial_prompt", << >>, "ok", << >>))
          /\ UNCHANGED <<cancel_requested, fc_vars, aux_vars, max_correction_rounds, verifier, corrector, result,
                         retrieved_chunks, current_answer, correction_round,
                         has_hallucination, errors, correction_history, exc>>
       \/ Raise("TypeError", Call("initial_prompt", << >>, "raise", << >>))

\* initial_answer = llm_inference(prompt=initial_prompt, temperature=0.1)
\* and the initialisation of the loop's locals
GenerateInitial ==
    /\ pc = "generate"
    /\ \E initial_answer \in llm_inference :
         /\ result' = [result EXCEPT !.initial_answer = initial_answer]
         /\ current_answer' = initial_answer
         /\ process_log' = process_log \o
                <<Log("generate_done", 0), Log("loop_start", max_correction_rounds)>>
         /\ correction_round' = 0
         /\ has_hallucination' = FALSE
         /\ correction_history' = << >>
         /\ calls' = Append(calls,
                Call("generate", << >>,
                     IF initial_answer = LLMError THEN "llm_error" ELSE "text",
                     initial_answer))
    /\ pc' = "loop"
    /\ UNCHANGED <<cancel_requested, fc_vars, aux_vars, max_correction_rounds, verifier, corrector,
                   retrieved_chunks, errors, exc>>

\* the loop test off by one: one round more than the caller allowed
LoopCondition_Mutant(round, max_rounds) == round <= max_rounds

\* `while correction_round < max_correction_rounds`
LoopCondition(round, max_rounds) == round < max_rounds

LoopTest ==
    /\ pc = "loop"
    /\ IF LoopCondition(correction_round, max_correction_rounds)
       THEN /\ process_log' = Append(process_log,
                                     Log("verify_start", correction_round + 1))
            /\ pc' = "verify"
       ELSE /\ process_log' = process_log
            /\ pc' = "finish"
    /\ UNCHANGED <<cancel_requested, fc_vars, aux_vars, max_correction_rounds, verifier, corrector, result,
                   retrieved_chunks, current_answer, correction_round,
                   has_hallucination, errors, correction_history, exc, calls>>

\* ------------------------------------------------------- verify_answer
VReturn(has, errs, out) == [raised |-> FALSE, e |-> "none", has |-> has,
                            errors |-> errs, out |-> out]
VRaise(e) == [raised |-> TRUE, e |-> e, has |-> FALSE, errors |-> << >>,
              out |-> "raise"]

\* the two signals joined by `and`: one signal alone does not flag
combine_has_Mutant(all_issues, low_confidence) ==
    Len(all_issues) > 0 /\ low_confidence

\* FactChecker._combine_verification_results:
\* has_hallucination = len(all_issues) > 0 or final_confidence < threshold
combine_has(all_issues, low_confidence) == Len(all_issues) > 0 \/ low_confidence

\* src/verification/fact_checker.py: the rule layer and the combination run
\* without a handler, so an exception there leaves verify_answer; an
\* exception in the semantic layer is caught and recorded as an issue
verify_answer_verification(answer, chunks) ==
    {VRaise("TypeError")}
    \cup {VReturn(combine_has(errs, low), errs,
                  IF combine_has(errs, low) THEN "issue" ELSE "no_issue") :
            errs \in ErrorLists, low \in BOOLEAN}
    \cup {VReturn(combine_has(<<"semantic_failed">>, low),
                  <<"semantic_failed">>, "caught") : low \in BOOLEAN}

\* `not answer or len(answer.strip()) < 10`
TooShort(answer) == Len(answer) = 0

\* src/llm2/fact_checker.py: a short answer passes unchecked, an exception
\* anywhere returns (True, [description]), otherwise the parsed reply
verify_answer_llm2(answer, chunks) ==
    IF TooShort(answer)
    THEN {VReturn(FALSE, << >>, "no_issue")}
    ELSE {VReturn(TRUE, VerifyExceptionErrors, "caught")}
         \cup {VReturn(FALSE, << >>, "no_issue")}
         \cup {VReturn(TRUE, errs, "issue") : errs \in ErrorLists}

verify_answer(impl, answer, chunks) ==
    IF impl = "verification"
    THEN verify_answer_verification(answer, chunks)
    ELSE verify_answer_llm2(answer, chunks)

\* rounds numbered from 0 in the record
HistoryRecord_Mutant(round, errs, answer) ==
    [round |-> round, errors |-> errs, answer_before_correction |-> answer]

\* the dictionary appended to correction_history: "round":
\* correction_round + 1, "errors": errors, "answer_before_correction":
\* current_answer
HistoryRecord(round, errs, answer) ==
    [round |-> round + 1, errors |-> errs, answer_before_correction |-> answer]

\* sub-step 3.1 of the loop: verify, break when clean, else record the round
Verify ==
    /\ pc = "verify"
    /\ \E o \in verify_answer(verifier, current_answer, retrieved_chunks) :
         IF o.raised
         THEN Raise(o.e, Call("verify", current_answer, "raise", << >>))
         ELSE /\ has_hallucination' = o.has
              /\ errors' = o.errors
              /\ calls' = Append(calls,
                     Call("verify", current_answer, o.out, o.errors))
              /\ IF ~o.has
                 THEN /\ process_log' = process_log \o
                           <<Log("verify_done_false", correction_round + 1),
                             Log("no_hallucination", 0)>>
                      /\ correction_history' = correction_history
                      /\ pc' = "finish"
                 ELSE /\ process_log' = process_log \o
                           <<Log("verify_done_true", correction_round + 1),
                             Log("correct_start", correction_round + 1)>>
                      /\ correction_history' = Append(correction_history,
                           HistoryRecord(correction_round, o.errors,
                                         current_answer))
                      /\ pc' = "correction_prompt"
              /\ UNCHANGED <<cancel_requested, fc_vars, aux_vars, max_correction_rounds, verifier, corrector,
                             result, retrieved_chunks, current_answer,
                             correction_round, exc>>

\* get_correction_prompt(answer=..., chunks=..., errors=...) in the loop
BuildCorrectionPrompt ==
    /\ pc = "correction_prompt"
    /\ \/ /\ pc' = "correct"
          /\ calls' = Append(calls,
                 Call("correction_prompt", current_answer, "ok", << >>))
          /\ UNCHANGED <<cancel_requested, fc_vars, aux_vars, max_correction_rounds, verifier, corrector, result,
                         process_log, retrieved_chunks, current_answer,
                         correction_round, has_hallucination, errors,
                         correction_history, exc>>
       \/ Raise("TypeError",
                Call("correction_prompt", current_answer, "raise", << >>))

\* ------------------------------------------------------ correct_answer
CReturn(value, out) == [raised |-> FALSE, e |-> "none", value |-> value,
                        out |-> out]
CRaise(e) == [raised |-> TRUE, e |-> e, value |-> << >>, out |-> "raise"]

\* what correct_answer hands back when llm_inference returned r
LLMResponse(r) == CReturn(r, IF r = LLMError THEN "llm_error" ELSE "text")

\* src/correction/answer_corrector.py: no handler; the query lookup
\* chunks[0].get("metadata", {}).get(...) raises on a None metadata;
\* otherwise the response of llm_inference is returned as it is
correct_answer_v1(answer, chunks, errs) ==
    {CRaise("AttributeError")} \cup {LLMResponse(r) : r \in llm_inference}

\* the fallback of src/correction2.0/answer_corrector.py:
\* f"{answer}\n\n[注意：纠正过程中出现错误，以上为原始回答]"
Fallback(answer) == answer \o Caveat

\* src/correction2.0/answer_corrector.py: the response of llm_inference,
\* or the fallback when anything inside the try block raises
correct_answer_v2(answer, chunks, errs) ==
    {CReturn(Fallback(answer), "fallback")}
    \cup {LLMResponse(r) : r \in llm_inference}

correct_answer(impl, answer, chunks, errs) ==
    IF impl = "correction"
    THEN correct_answer_v1(answer, chunks, errs)
    ELSE correct_answer_v2(answer, chunks, errs)

\* sub-step 3.2 of the loop: correct, replace the answer, count the round
Correct ==
    /\ pc = "correct"
    /\ \E o \in correct_answer(corrector, current_answer, retrieved_chunks,
                               errors) :
         IF o.raised
         THEN Raise(o.e, Call("correct", current_answer, "raise", << >>))
         ELSE /\ current_answer' = o.value
              /\ process_log' = Append(process_log,
                     Log("correct_done", correction_round + 1))
              /\ correction_round' = correction_round + 1
              /\ calls' = Append(calls,
                     Call("correct", current_answer, o.out, o.value))
              /\ pc' = "loop"
              /\ UNCHANGED <<cancel_requested, fc_vars, aux_vars, max_correction_rounds, verifier, corrector,
                             result, retrieved_chunks, has_hallucination,
                             errors, correction_history, exc>>

\* step 4: the note on exhausted rounds and the assembly of the result
Finish ==
    /\ pc = "finish"
    /\ process_log' =
         IF correction_round >= max_correction_rounds /\ has_hallucination
         THEN Append(process_log,
                     Log("max_rounds_reached", max_correction_rounds))
         ELSE process_log
    /\ result' = [result EXCEPT
           !.final_answer = current_answer,
           !.correction_history = correction_history,
           !.has_hallucination = has_hallucination,
           !.process_log = process_log']
    /\ pc' = "done"
    /\ UNCHANGED <<cancel_requested, fc_vars, aux_vars, max_correction_rounds, verifier, corrector,
                   retrieved_chunks, current_answer, correction_round,
                   has_hallucination, errors, correction_history, exc, calls>>

\* a handler narrowed to `except KeyError`
Catches_Mutant(e) == e = "KeyError"

\* `except Exception as e`
Catches(e) == e \in Exceptions

\* a handler that also stores the history and the flag built so far
HandleException_Mutant ==
    /\ pc = "except"
    /\ process_log' = Append(process_log, <<"error", exc>>)
    /\ result' = [result EXCEPT
           !.final_answer = SystemError(exc),
           !.correction_history = correction_history,
           !.has_hallucination = has_hallucination,
           !.process_log = process_log']
    /\ pc' = "done"
    /\ UNCHANGED <<cancel_requested, fc_vars, aux_vars, max_correction_rounds, verifier,
                   corrector, retrieved_chunks, current_answer,
                   correction_round, has_hallucination, errors,
                   correction_history, exc, calls>>

\* the handler: log the message, put it in final_answer, return the result;
\* an exception the clause does not catch leaves the function
HandleException ==
    /\ pc = "except"
    /\ IF Catches(exc)
       THEN /\ process_log' = Append(process_log, <<"error", exc>>)
            /\ result' = [result EXCEPT
                   !.final_answer = SystemError(exc),
                   !.process_log = process_log']
            /\ pc' = "done"
       ELSE /\ pc' = "raised"
            /\ UNCHANGED <<process_log, result>>
    /\ UNCHANGED <<cancel_requested, fc_vars, aux_vars, max_correction_rounds, verifier, corrector,
                   retrieved_chunks, current_answer, correction_round,
                   has_hallucination, errors, correction_history, exc, calls>>

Next ==
    \/ ConstructRetriever
    \/ Retrieve
    \/ BuildInitialPrompt
    \/ GenerateInitial
    \/ LoopTest
    \/ Verify
    \/ BuildCorrectionPrompt
    \/ Correct
    \/ Finish
    \/ HandleException

Spec == Init /\ [][Next]_vars

\* every external call returns: a step that can be taken is taken
FairSpec == Spec /\ WF_vars(Next)

\* the caller raises the cancellation signal while the run is in progress
RequestCancel ==
    /\ pc \notin {"done", "raised"}
    /\ cancel_requested = FALSE
    /\ cancel_requested' = TRUE
    /\ UNCHANGED <<fc_vars, aux_vars, max_correction_rounds, verifier, corrector, pc,
                   result, process_log, retrieved_chunks, current_answer,
                   correction_round, has_hallucination, errors,
                   correction_history, exc, calls>>

CancelNext == Next \/ RequestCancel

\* the controller run by a caller that may cancel it at any moment
CancelSpec == Init /\ [][CancelNext]_vars

\* ------------------------------------------------------------ FactChecker
\* One call of the convenience function verify_answer of
\* src/src/verification/fact_checker.py.  Confidences are counted in
\* thousandths: 1000 stands for 1.0, 500 for 0.5.  The rule confidence is a
\* multiple of 100 and every semantic confidence a multiple of 5, so the
\* divisions below leave no remainder.

\* largest number of issues one rule check reports
MaxIssues == 4

\* the strings a caller passes as verification_level
LevelStrings == {"basic", "semantic", "comprehensive", "strict"}

\* level_map.get(verification_level, VerificationLevel.COMPREHENSIVE)
level_map(s) ==
    IF s \in {"basic", "semantic", "comprehensive"} THEN s ELSE "comprehensive"

\* the issue lists _verify_numbers, _verify_entities and _verify_claims
\* return for the answer and chunks of the call
IssueLists(tag) == {[i \in 1..n |-> tag] : n \in 0..MaxIssues}
RuleIssues ==
    [numbers : IssueLists("number_issue"),
     entities : IssueLists("entity_issue"),
     claims : IssueLists("claim_issue")]

\* the number found on the score line of a reply, in thousandths:
\* "0", "0.5", "0.85", "1", "1.5", "85", "100", "150"
RawScores == {0, 500, 850, 1000, 1500, 85000, 100000, 150000}

\* what the request to the DeepSeek API does in this call
ApiFailures == {"no_key", "bad_status", "network_error", "malformed"}
ApiOutcomes ==
    {[kind |-> k, raw |-> 0] :
        k \in ApiFailures \cup {"prompt_error", "no_score"}}
    \cup {[kind |-> "score", raw |-> r] : r \in RawScores}

\* config.FACT_CHECK_CONFIG['hallucination_threshold'] (0.6) and the value
\* used when the lookup fails (0.7)
Thresholds == {600, 700}

\* the confidence written when the semantic check could not be made (0.5)
Neutral == 500

Max(a, b) == IF a >= b THEN a ELSE b

\* _basic_verification: the three checks always run;
\* confidence = max(0.0, 1.0 - (issues_count / max(total_checks, 1)) * 0.3)
basic_verification(found) ==
    LET issues_found == found.numbers \o found.entities \o found.claims
        total_checks == 3
        issues_count == Len(issues_found)
    IN  [ran |-> TRUE,
         issues |-> issues_found,
         confidence |->
             Max(0, 1000 - (issues_count * 300) \div Max(total_checks, 1))]

\* _parse_api_response: 0.5 unless a score line gives a number; a number
\* above 1 is divided by 100 once
parse_api_response(reply) ==
    IF reply.kind = "score"
    THEN [confidence |-> IF reply.raw > 1000 THEN reply.raw \div 100
                         ELSE reply.raw]
    ELSE [confidence |-> Neutral]

\* _call_deepseek_api: None for a missing key, a status other than 200, a
\* request exception or a body without choices; else the parsed reply
call_deepseek_api(outcome) ==
    IF outcome.kind \in ApiFailures
    THEN [none |-> TRUE, confidence |-> 0]
    ELSE [none |-> FALSE, confidence |-> parse_api_response(outcome).confidence]

\* _semantic_verification
semantic_verification(outcome) ==
    IF outcome.kind = "prompt_error"
    THEN [ran |-> TRUE, issues |-> <<"semantic_exception">>,
          confidence |-> Neutral]
    ELSE LET verification_result == call_deepseek_api(outcome)
         IN  IF ~verification_result.none
             THEN [ran |-> TRUE, issues |-> << >>,
                   confidence |-> verification_result.confidence]
             ELSE [ran |-> TRUE, issues |-> <<"api_failed">>,
                   confidence |-> Neutral]

\* the weights of the two layers exchanged
final_confidence_Mutant(basic, semantic) ==
    IF semantic.ran
    THEN (basic.confidence * 4 + semantic.confidence * 6) \div 10
    ELSE basic.confidence

\* final_confidence = basic_confidence * 0.6 + semantic_confidence * 0.4 if
\* semantic_result else basic_confidence
final_confidence(basic, semantic) ==
    IF semantic.ran
    THEN (basic.confidence * 6 + semantic.confidence * 4) \div 10
    ELSE basic.confidence

\* _combine_verification_results
combine_verification_results(basic, semantic, limit) ==
    LET all_issues == basic.issues \o semantic.issues
        conf == final_confidence(basic, semantic)
    IN  [has_hallucination |-> combine_has(all_issues, conf < limit),
         confidence_score |-> conf,
         error_descriptions |-> all_issues]

\* verify_answer(answer, chunks, query, verification_level) is called
VerifyInit ==
    /\ fc_pc = "basic"
    /\ verification_level \in LevelStrings
    /\ rule_issues \in RuleIssues
    /\ content_missing \in BOOLEAN
    /\ api_outcome \in ApiOutcomes
    /\ threshold \in Thresholds
    /\ basic_result = NoResult
    /\ semantic_result = NoResult
    /\ final_result = [has_hallucination |-> FALSE, confidence_score |-> 0,
                       error_descriptions |-> << >>]
    /\ max_correction_rounds = 0
    /\ verifier = "verification"
    /\ corrector = "correction"
    /\ pc = "idle"
    /\ result = [final_answer |-> << >>, initial_answer |-> << >>,
                 retrieved_chunks |-> << >>, correction_history |-> << >>,
                 has_hallucination |-> FALSE, process_log |-> << >>]
    /\ process_log = << >>
    /\ retrieved_chunks = << >>
    /\ current_answer = << >>
    /\ correction_round = 0
    /\ has_hallucination = FALSE
    /\ errors = << >>
    /\ correction_history = << >>
    /\ exc = "none"
    /\ calls = << >>
    /\ cancel_requested = FALSE
    /\ AuxIdle

\* key_info = _extract_key_information(answer);
\* basic_result = _basic_verification(answer, key_info, chunks).
\* The checks read chunk['content'] and there is no handler around them.
FCBasic ==
    /\ fc_pc = "basic"
    /\ \/ /\ basic_result' = basic_verification(rule_issues)
          /\ fc_pc' = IF level_map(verification_level)
                           \in {"semantic", "comprehensive"}
                      THEN "semantic" ELSE "combine"
       \/ /\ content_missing
          /\ fc_pc' = "raised"
          /\ UNCHANGED basic_result
    /\ UNCHANGED <<ctl_vars, aux_vars, verification_level, rule_issues, content_missing,
                   api_outcome, threshold, semantic_result, final_result>>

\* semantic_result = _semantic_verification(answer, key_info, chunks, query)
FCSemantic ==
    /\ fc_pc = "semantic"
    /\ semantic_result' = semantic_verification(api_outcome)
    /\ fc_pc' = "combine"
    /\ UNCHANGED <<ctl_vars, aux_vars, verification_level, rule_issues, content_missing,
                   api_outcome, threshold, basic_result, final_result>>

\* final_result = _combine_verification_results(basic_result,
\* semantic_result, chunks); building evidence_chunks reads chunk['content']
FCCombine ==
    /\ fc_pc = "combine"
    /\ IF content_missing
       THEN /\ fc_pc' = "raised"
            /\ UNCHANGED final_result
       ELSE /\ final_result' = combine_verification_results(
                                   basic_result, semantic_result, threshold)
            /\ fc_pc' = "returned"
    /\ UNCHANGED <<ctl_vars, aux_vars, verification_level, rule_issues, content_missing,
                   api_outcome, threshold, basic_result, semantic_result>>

VerifyNext == FCBasic \/ FCSemantic \/ FCCombine

VerifySpec == VerifyInit /\ [][VerifyNext]_vars

\* ------------------------------------------------- rule layer on a text
\* The number check of the rule layer followed on the characters of the
\* answer and of the chunks: _extract_key_information, _verify_numbers,
\* then _basic_verification and the combination at level 'basic'.

\* longest answer and longest chunk content, in characters
MaxAnswerLen == 3
MaxContentLen == 2

\* the characters texts are made of
Digits == {"1", "2"}
Alphabet == Digits \cup {".", "%", " "}

\* characters \w matches; "Y" and "M" stand for the characters 年 and 月
WordChars == Digits \cup {"a", "Y", "M"}

\* all strings of at most n characters
Strings(n) == UNION {[1..k -> Alphabet] : k \in 0..n}

\* \b before position i of s (i = Len(s) + 1: at the end)
Boundary(s, i) ==
    ((i - 1) \in DOMAIN s /\ s[i - 1] \in WordChars)
        # (i \in DOMAIN s /\ s[i] \in WordChars)

\* the last position of the run of digits that starts at i (i - 1: none)
RECURSIVE DigitsEnd(_, _)
DigitsEnd(s, i) ==
    IF i \in DOMAIN s /\ s[i] \in Digits THEN DigitsEnd(s, i + 1) ELSE i - 1

\* the character of s at i is c
CharAt(s, i, c) == i \in DOMAIN s /\ s[i] = c

\* self.number_patterns, in order
number_patterns == <<"integer", "decimal", "percent", "year", "month">>

\* the end of the match of the pattern at position i of s, 0 if none.
\* \d+ is greedy and a shorter run is never followed by what the pattern
\* wants next, so only the whole run of digits can match.
MatchEnd(pattern, s, i) ==
    LET k == DigitsEnd(s, i)
    IN  IF ~(Boundary(s, i) /\ k >= i) THEN 0
        ELSE CASE pattern = "integer" ->          \* \b\d+\b
                    IF Boundary(s, k + 1) THEN k ELSE 0
               [] pattern = "decimal" ->          \* \b\d+\.\d+\b
                    LET j == DigitsEnd(s, k + 2)
                    IN  IF CharAt(s, k + 1, ".") /\ j >= k + 2
                           /\ Boundary(s, j + 1)
                        THEN j ELSE 0
               [] pattern = "percent" ->          \* \b\d+%
                    IF CharAt(s, k + 1, "%") THEN k + 1 ELSE 0
               [] pattern = "year" ->             \* \b\d+年\b
                    IF CharAt(s, k + 1, "Y") /\ Boundary(s, k + 2)
                    THEN k + 1 ELSE 0
               [] pattern = "month" ->            \* \b\d+月\b
                    IF CharAt(s, k + 1, "M") /\ Boundary(s, k + 2)
                    THEN k + 1 ELSE 0

\* re.findall(pattern, text): the matches from left to right, the search
\* going on after the end of each match
RECURSIVE FindAll(_, _, _)
FindAll(pattern, s, i) ==
    IF i > Len(s) THEN << >>
    ELSE LET j == MatchEnd(pattern, s, i)
         IN  IF j >= i
             THEN <<SubSeq(s, i, j)>> \o FindAll(pattern, s, j + 1)
             ELSE FindAll(pattern, s, i + 1)

\* key_info['numbers']: the matches of every pattern, one pattern after
\* the other
RECURSIVE extract_numbers(_, _)
extract_numbers(text, p) ==
    IF p > Len(number_patterns) THEN << >>
    ELSE FindAll(number_patterns[p], text, 1) \o extract_numbers(text, p + 1)

\* `number in chunk['content']` with the strings compared whole
IsIn_Mutant(sub, text) == sub = text

\* `number in chunk['content']`: sub is a substring of text
IsIn(sub, text) ==
    \E k \in 0..(Len(text) - Len(sub)) : SubSeq(text, k + 1, k + Len(sub)) = sub

\* the issue _verify_numbers appends for a number
NumberIssue(number) == [kind |-> "number_issue", item |-> number]

\* _verify_numbers
RECURSIVE verify_numbers(_, _)
verify_numbers(nums, chunks) ==
    IF nums = << >> THEN << >>
    ELSE LET found_in_chunks ==
                 Cardinality({c \in DOMAIN chunks : IsIn(Head(nums), chunks[c])})
         IN  (IF found_in_chunks = 0 THEN <<NumberIssue(Head(nums))>>
              ELSE << >>)
             \o verify_numbers(Tail(nums), chunks)

\* verify_answer(answer, chunks, verification_level="basic") is called with
\* an answer and at most one chunk.  The answer has no capital letter, no
\* "@", no URL and fewer than ten characters, so key_info has neither
\* entities nor claims.
NumberInit ==
    /\ nc_pc = "extract"
    /\ nc_answer \in Strings(MaxAnswerLen)
    /\ contents \in {<< >>} \cup {<<c>> : c \in Strings(MaxContentLen)}
    /\ numbers = << >>
    /\ fc_pc = "idle"
    /\ verification_level = "basic"
    /\ rule_issues = [numbers |-> << >>, entities |-> << >>, claims |-> << >>]
    /\ content_missing = FALSE
    /\ api_outcome = [kind |-> "no_key", raw |-> 0]
    /\ threshold \in Thresholds
    /\ basic_result = NoResult
    /\ semantic_result = NoResult
    /\ final_result = [has_hallucination |-> FALSE, confidence_score |-> 0,
                       error_descriptions |-> << >>]
    /\ max_correction_rounds = 0
    /\ verifier = "verification"
    /\ corrector = "correction"
    /\ pc = "idle"
    /\ result = [final_answer |-> << >>, initial_answer |-> << >>,
                 retrieved_chunks |-> << >>, correction_history |-> << >>,
                 has_hallucination |-> FALSE, process_log |-> << >>]
    /\ process_log = << >>
    /\ retrieved_chunks = << >>
    /\ current_answer = << >>
    /\ correction_round = 0
    /\ has_hallucination = FALSE
    /\ errors = << >>
    /\ correction_history = << >>
    /\ exc = "none"
    /\ calls = << >>
    /\ cancel_requested = FALSE
    /\ CSIdle
    /\ TSIdle

\* key_info = self._extract_key_information(answer)
NCExtract ==
    /\ nc_pc = "extract"
    /\ numbers' = extract_numbers(nc_answer, 1)
    /\ nc_pc' = "verify_numbers"
    /\ UNCHANGED <<ctl_vars, fc_vars, cs_vars, ts_vars, nc_answer, contents>>

\* number_issues = self._verify_numbers(key_info['numbers'], chunks), the
\* entity and claim checks finding nothing to check
NCVerifyNumbers ==
    /\ nc_pc = "verify_numbers"
    /\ rule_issues' = [numbers |-> verify_numbers(numbers, contents),
                       entities |-> << >>, claims |-> << >>]
    /\ nc_pc' = "checked"
    /\ fc_pc' = "basic"
    /\ UNCHANGED <<ctl_vars, cs_vars, ts_vars, verification_level,
                   content_missing, api_outcome, threshold, basic_result,
                   semantic_result, final_result, nc_answer, contents,
                   numbers>>

NumberNext == NCExtract \/ NCVerifyNumbers \/ FCBasic \/ FCCombine

NumberSpec == NumberInit /\ [][NumberNext]_vars

\* ------------------------------------------- the claim-support check
\* the longest sentence followed, in words
MaxWords == 4

\* len(word) of the words a sentence is made of: one below the length
\* filter of _verify_claims, one at it, one well above it
WordLens == {1, 2, 6}

\* a word of a sentence: its length and whether word.lower() is in the
\* content of some chunk
Words == [len : WordLens, found : BOOLEAN]

\* the sentences of at most n words
Sentences(n) == UNION {[1..k -> Words] : k \in 0..n}

RECURSIVE SumLens(_)
\* the characters of the words of a sentence
SumLens(ws) == IF ws = << >> THEN 0 ELSE Head(ws).len + SumLens(Tail(ws))

\* len(sentence) of a stripped sentence whose words are one space apart
SentenceLen(ws) == IF ws = << >> THEN 0 ELSE SumLens(ws) + Len(ws) - 1

\* key_info['claims'] of a text of one sentence
extract_claims(ws) == IF SentenceLen(ws) > 10 THEN <<ws>> ELSE << >>

\* support_score after the loop over claim_words
support_score(ws) ==
    Cardinality({i \in DOMAIN ws : ~(ws[i].len < 2) /\ ws[i].found})

\* total_words = len(claim_words)
total_words(ws) == Len(ws)

\* support_ratio < 0.3 with support_ratio = score / max(total, 1)
LowSupport(score, total) == 10 * score < 3 * Max(total, 1)

\* the issue _verify_claims appends for a sentence
ClaimIssue(ws) == [kind |-> "claim_issue", item |-> ws]

RECURSIVE verify_claims(_)
\* FactChecker._verify_claims
verify_claims(cl) ==
    IF cl = << >> THEN << >>
    ELSE LET claim == Head(cl)
             rest == verify_claims(Tail(cl))
         IN  IF SentenceLen(claim) < 10 THEN rest
             ELSE IF LowSupport(support_score(claim), total_words(claim))
                  THEN <<ClaimIssue(claim)>> \o rest
                  ELSE rest

\* an answer of one sentence is about to be checked
ClaimInit ==
    /\ cs_pc = "extract"
    /\ claim_words \in Sentences(MaxWords)
    /\ key_claims = << >>
    /\ claim_issues = << >>
    /\ max_correction_rounds = 0
    /\ verifier = "verification"
    /\ corrector = "correction"
    /\ pc = "idle"
    /\ result = NoResult
    /\ process_log = << >>
    /\ retrieved_chunks = << >>
    /\ current_answer = << >>
    /\ correction_round = 0
    /\ has_hallucination = FALSE
    /\ errors = << >>
    /\ correction_history = << >>
    /\ exc = "none"
    /\ calls = << >>
    /\ cancel_requested = FALSE
    /\ FCIdle
    /\ NCIdle
    /\ TSIdle

\* the sentence split of _extract_key_information
CSExtract ==
    /\ cs_pc = "extract"
    /\ key_claims' = extract_claims(claim_words)
    /\ cs_pc' = "verify"
    /\ UNCHANGED <<ctl_vars, fc_vars, nc_vars, ts_vars, claim_words,
                   claim_issues>>

\* claim_issues = self._verify_claims(key_info['claims'], chunks)
CSVerifyClaims ==
    /\ cs_pc = "verify"
    /\ claim_issues' = verify_claims(key_claims)
    /\ cs_pc' = "checked"
    /\ UNCHANGED <<ctl_vars, fc_vars, nc_vars, ts_vars, claim_words,
                   key_claims>>

ClaimNext == CSExtract \/ CSVerifyClaims

ClaimSpec == ClaimInit /\ [][ClaimNext]_vars

\* ------------------------------------------------------ the text splitter
\* the longest text split, in characters
MaxTextLen == 6

\* the largest chunk_size given to the constructor
MaxChunkSize == 5

\* the loop iterations of _split_text_by_size followed; a loop that ends
\* takes at most len(text) of them when start grows on every iteration
MaxIterations == MaxTextLen + 2

\* the characters of the texts split: a letter, the separator '.' and the
\* separator ' '
TextChars == {"a", ".", " "}

\* the texts of at most n characters
Texts(n) == UNION {[1..k -> TextChars] : k \in 0..n}

\* self.separators restricted to the separators that occur in the texts
separators == <<".", " ">>

\* the width of the separator search of _find_break_point
SeparatorWindow == 100

\* the width of the space search of _find_break_point
SpaceWindow == 50

\* a slice index of Python on a string of n characters
PyIndex(i, n) == IF i < 0 THEN Max(i + n, 0) ELSE IF i > n THEN n ELSE i

\* str.rfind(c, lo, hi) for a separator of one character
rfind(str, c, lo, hi) ==
    LET n == Len(str)
        hits == {p \in PyIndex(lo, n) .. (PyIndex(hi, n) - 1) : str[p + 1] = c}
    IN  IF hits = {} THEN -1
        ELSE CHOOSE p \in hits : \A q \in hits : q <= p

\* text[lo:hi]
PySlice(str, lo, hi) == SubSeq(str, PyIndex(lo, Len(str)) + 1, PyIndex(hi, Len(str)))

RECURSIVE LStrip(_)
\* str.lstrip()
LStrip(str) ==
    IF str # << >> /\ Head(str) = " " THEN LStrip(Tail(str)) ELSE str

RECURSIVE RStrip(_)
\* str.rstrip()
RStrip(str) ==
    IF str # << >> /\ str[Len(str)] = " "
    THEN RStrip(SubSeq(str, 1, Len(str) - 1)) ELSE str

\* str.strip()
Strip(str) == RStrip(LStrip(str))

RECURSIVE SeparatorBreak(_, _, _, _, _)
\* the loop of _find_break_point over self.separators from the k-th on,
\* followed by the space search and the last resort
SeparatorBreak(k, str, size, from, to) ==
    IF k > Len(separators)
    THEN LET pos == rfind(str, " ", Max(from, to - SpaceWindow), to)
         IN  IF pos > from + (size \div 2) THEN pos ELSE to
    ELSE LET pos == rfind(str, separators[k],
                          Max(from, to - SeparatorWindow), to)
         IN  IF pos > from + (size \div 2) THEN pos + Len(<<separators[k]>>)
             ELSE SeparatorBreak(k + 1, str, size, from, to)

\* TextSplitter._find_break_point
find_break_point(str, size, from, to) == SeparatorBreak(1, str, size, from, to)

\* end of the chunk that begins at from
ChunkEnd(str, size, from) ==
    IF from + size < Len(str)
    THEN find_break_point(str, size, from, from + size)
    ELSE from + size

\* a splitter is about to be built for one text
SplitInit ==
    /\ ts_pc = "new"
    /\ ts_text \in Texts(MaxTextLen)
    /\ chunk_size = 1
    /\ chunk_overlap = 0
    /\ ts_start = 0
    /\ ts_iter = 0
    /\ ts_chunks = << >>
    /\ max_correction_rounds = 0
    /\ verifier = "verification"
    /\ corrector = "correction"
    /\ pc = "idle"
    /\ result = NoResult
    /\ process_log = << >>
    /\ retrieved_chunks = << >>
    /\ current_answer = << >>
    /\ correction_round = 0
    /\ has_hallucination = FALSE
    /\ errors = << >>
    /\ correction_history = << >>
    /\ exc = "none"
    /\ calls = << >>
    /\ cancel_requested = FALSE
    /\ FCIdle
    /\ NCIdle
    /\ CSIdle

\* TextSplitter.__init__ with both sizes given
TSConstruct ==
    /\ ts_pc = "new"
    /\ \E size \in 1..MaxChunkSize, overlap \in 1..MaxChunkSize :
          /\ chunk_size' = size
          /\ chunk_overlap' = overlap
          /\ ts_pc' = IF overlap >= size THEN "rejected" ELSE "split"
    /\ UNCHANGED <<ctl_vars, fc_vars, nc_vars, cs_vars, ts_text, ts_start,
                   ts_iter, ts_chunks>>

\* _split_text_by_size up to the loop
TSSplit ==
    /\ ts_pc = "split"
    /\ IF Len(ts_text) <= chunk_size
       THEN /\ ts_chunks' = <<ts_text>>
            /\ ts_pc' = "done"
       ELSE /\ ts_chunks' = << >>
            /\ ts_pc' = "loop"
    /\ ts_start' = 0
    /\ UNCHANGED <<ctl_vars, fc_vars, nc_vars, cs_vars, ts_text, chunk_size,
                   chunk_overlap, ts_iter>>

\* one iteration of the while loop of _split_text_by_size
TSIteration ==
    /\ ts_pc = "loop"
    /\ ts_iter < MaxIterations
    /\ LET end == ChunkEnd(ts_text, chunk_size, ts_start)
           chunk == Strip(PySlice(ts_text, ts_start, end))
       IN  /\ ts_chunks' = IF chunk # << >> THEN Append(ts_chunks, chunk)
                           ELSE ts_chunks
           /\ ts_start' = end - chunk_overlap
           /\ ts_pc' = IF end - chunk_overlap >= Len(ts_text) THEN "done"
                       ELSE "loop"
    /\ ts_iter' = ts_iter + 1
    /\ UNCHANGED <<ctl_vars, fc_vars, nc_vars, cs_vars, ts_text, chunk_size,
                   chunk_overlap>>

SplitNext == TSConstruct \/ TSSplit \/ TSIteration

SplitSpec == SplitInit /\ [][SplitNext]_vars

\* ------------------------------------------------------------ properties
CallsOf(op) == SelectSeq(calls, LAMBDA c : c.op = op)
NumCalls(op) == Len(CallsOf(op))

\* the run has returned its result to the caller
Done == pc = "done"

\* a verification pass that reported an issue to the controller
ReportedIssue(c) == c.out \in {"issue", "caught"}

\* correction rounds that ran to completion: correct_answer returned
CompletedRounds ==
    Len(SelectSeq(calls, LAMBDA c : c.op = "correct" /\ c.out # "raise"))

\* some step of the run left with an exception
StepRaised == \E i \in DOMAIN calls : calls[i].out = "raise"

\* the retriever returned the empty list
RetrievalEmpty ==
    \E i \in DOMAIN calls : calls[i].op = "retrieve" /\ calls[i].out = "empty"

\* C1: the correction_history of the returned result has at most max_rounds
\* records, and as many records as correction rounds were completed.
C1_HistoryCountsCompletedRounds ==
    Done =>
        /\ Len(result.correction_history) <= max_correction_rounds
        /\ Len(result.correction_history) = CompletedRounds

\* C2: in the returned result has_hallucination is true exactly when the
\* last verification pass of the run reported an issue.
C2_FlagIsLastVerdict ==
    Done =>
        (result.has_hallucination <=>
            (NumCalls("verify") > 0 /\ ReportedIssue(Last(CallsOf("verify")))))

\* C3: once a correction has run, the returned final_answer is the answer
\* the last verification pass examined, and there is one verification pass
\* more than there are correction records.
C3_CorrectedAnswerIsReverified ==
    (Done /\ NumCalls("correct") >= 1) =>
        /\ Last(CallsOf("verify")).arg = result.final_answer
        /\ NumCalls("verify") = Len(result.correction_history) + 1

\* C4: when the retriever returns no chunk the run is over at once with the
\* refusal text, an empty history, has_hallucination false and no call to
\* the generator, the verifier or the corrector, whatever max_rounds is.
C4_EmptyEvidenceShortCircuit ==
    RetrievalEmpty =>
        /\ Done
        /\ result.final_answer = Refusal
        /\ result.correction_history = << >>
        /\ result.has_hallucination = FALSE
        /\ NumCalls("generate") = 0
        /\ NumCalls("verify") = 0
        /\ NumCalls("correct") = 0
        /\ NumCalls("initial_prompt") = 0

\* a run that ended on the short circuit although rounds were allowed
C4_Witness ==
    RetrievalEmpty /\ Done /\ max_correction_rounds = MaxRounds

\* C5: no exception leaves the controller: once a step has raised, the run
\* is in the handler or has returned a result whose final_answer is the
\* error message and whose process_log ends with the entry for the failure.
C5_NeverRaises ==
    /\ pc # "raised"
    /\ StepRaised =>
         \/ pc = "except"
         \/ /\ Done
            /\ result.final_answer = SystemError(exc)
            /\ result.process_log # << >>
            /\ Last(result.process_log) = <<"error", exc>>

\* a result returned after a step raised in the second round
C5_Witness ==
    Done /\ StepRaised /\ correction_round >= 1

\* C6: a verification pass that fails with an exception counts as "issue
\* present": right after it the run is on its way to a correction with the
\* flag set, and not in the exception handler.
C6_VerificationFailsClosed ==
    (calls # << >> /\ Last(calls).op = "verify"
        /\ Last(calls).out \in {"raise", "caught"}
        /\ pc \in {"correction_prompt", "finish", "except"}) =>
        /\ pc # "except"
        /\ has_hallucination

\* C7: with max_rounds = 0 and evidence the generated answer is verified
\* once before the run is done, and an issue found leaves the flag set and
\* the history empty.
C7_ZeroRoundsStillVerifies ==
    (Done /\ max_correction_rounds = 0 /\ NumCalls("generate") = 1) =>
        /\ NumCalls("verify") = 1
        /\ ReportedIssue(Last(CallsOf("verify"))) =>
             /\ result.correction_history = << >>
             /\ result.has_hallucination

\* C8: with max_rounds = n >= 1, a run all of whose verification passes
\* reported an issue returns exactly n records and has_hallucination true.
C8_AllIssuesGiveMaxRecords ==
    (/\ Done
     /\ max_correction_rounds >= 1
     /\ NumCalls("verify") >= 1
     /\ \A i \in DOMAIN calls :
            calls[i].op = "verify" => ReportedIssue(calls[i])) =>
        /\ Len(result.correction_history) = max_correction_rounds
        /\ result.has_hallucination

\* C9: when the generator call of a correction returns an error, the
\* current answer after the round is the previous answer with the caveat
\* and not the error text; the record is there, the round is counted and
\* the loop goes on.
C9_FailedCorrectionKeepsAnswer ==
    (calls # << >> /\ Last(calls).op = "correct"
        /\ Last(calls).out = "llm_error" /\ pc = "loop") =>
        /\ current_answer = Last(calls).arg \o Caveat
        /\ current_answer # LLMError
        /\ Len(correction_history) = correction_round
        /\ correction_round = NumCalls("correct")

\* C10: when every correction of a run fell back and every verification
\* pass reported an issue, the run made max_rounds corrections and
\* final_answer is initial_answer followed by one caveat.
C10_OneCaveatAfterAllFailures ==
    (/\ Done
     /\ max_correction_rounds >= 1
     /\ NumCalls("correct") >= 1
     /\ \A i \in DOMAIN calls :
            /\ calls[i].op = "correct" => calls[i].out = "fallback"
            /\ calls[i].op = "verify" => ReportedIssue(calls[i])
            /\ calls[i].out # "raise") =>
        /\ NumCalls("correct") = max_correction_rounds
        /\ result.final_answer = result.initial_answer \o Caveat

\* C11: correct_answer never raises, and a call in which something failed
\* inside (the generator returned its error text, or the handler was
\* entered) returns the answer it was given followed by the caveat.
C11_CorrectorNeverRaises ==
    \A i \in DOMAIN calls :
        calls[i].op = "correct" =>
            /\ calls[i].out # "raise"
            /\ calls[i].out \in {"llm_error", "fallback"} =>
                 calls[i].val = calls[i].arg \o Caveat

\* the token tok occurs in the text
Contains(text, tok) == \E i \in DOMAIN text : text[i] = tok

\* the call that produced the initial answer got the generator's error text
GenerationFailed ==
    \E i \in DOMAIN calls :
        calls[i].op = "generate" /\ calls[i].out = "llm_error"

\* C12: when the generator failed on the initial answer and no later step
\* raised, the run reaches its end without an exception and the returned
\* final_answer contains the failure reason.
C12_GenerationFailureSurfaced ==
    /\ (GenerationFailed /\ ~StepRaised) => pc # "raised"
    /\ (Done /\ GenerationFailed /\ ~StepRaised) =>
         Contains(result.final_answer, "LLM_ERROR")

\* C13: every run in which each call returns comes to its end, having made
\* at most max_rounds correction attempts and at most max_rounds + 1
\* verification passes.
C13_Terminates ==
    /\ <>Done
    /\ [](/\ NumCalls("correct") <= max_correction_rounds
          /\ NumCalls("verify") <= max_correction_rounds + 1)

\* a finished run that used every correction attempt the largest max_rounds
\* allows, none of which raised
C13_Witness ==
    /\ Done
    /\ ~StepRaised
    /\ max_correction_rounds = MaxRounds
    /\ NumCalls("correct") = MaxRounds

\* C14: once cancellation has been requested, the step taken at the top of
\* the loop starts no external call and goes to the return, and the result
\* then returned is the one assembled so far (current answer, evidence,
\* history) with the unresolved-issue flag set.
C14_CancelStopsRun ==
    [][cancel_requested =>
          /\ (pc = "loop" /\ pc' # pc) =>
                (pc' = "finish" /\ calls' = calls)
          /\ (pc = "finish" /\ pc' = "done") =>
                /\ result'.final_answer = current_answer
                /\ result'.retrieved_chunks = retrieved_chunks
                /\ result'.correction_history = correction_history
                /\ result'.has_hallucination = TRUE]_vars

\* the call of FactChecker.verify_answer has returned its result
Returned == fc_pc = "returned"

\* C15: the verdict of a returned result is true exactly when its issue
\* list is not empty or its confidence is below the threshold.
C15_VerdictIsPessimisticOr ==
    Returned =>
        (final_result.has_hallucination <=>
            \/ Len(final_result.error_descriptions) > 0
            \/ final_result.confidence_score < threshold)

\* an answer with an empty issue list flagged by its confidence alone
C15_Witness ==
    /\ Returned
    /\ final_result.error_descriptions = << >>
    /\ final_result.confidence_score < threshold
    /\ final_result.has_hallucination

\* C16: the confidence of every returned result lies between 0 and 1.
C16_ConfidenceInUnitInterval ==
    Returned =>
        /\ 0 <= final_result.confidence_score
        /\ final_result.confidence_score <= 1000

\* C17: the confidence of a returned result is 0.6 x rule confidence + 0.4 x
\* semantic confidence when both layers ran, and the confidence of the rule
\* layer when it ran alone.
C17_WeightedCombination ==
    Returned =>
        IF basic_result.ran /\ semantic_result.ran
        THEN 10 * final_result.confidence_score =
                 6 * basic_result.confidence + 4 * semantic_result.confidence
        ELSE /\ basic_result.ran
             /\ final_result.confidence_score = basic_result.confidence

\* both layers ran and gave different confidences, the rule layer after
\* finding an issue
C17_Witness ==
    /\ Returned
    /\ basic_result.ran /\ semantic_result.ran
    /\ basic_result.issues # << >>
    /\ basic_result.confidence # semantic_result.confidence

\* C18: at 'basic' the semantic layer is not invoked; at 'semantic' the
\* issue list and the verdict are those of the LLM check alone; at
\* 'comprehensive', and for a string that is no level, both layers ran.
C18_LevelSelectsLayers ==
    Returned =>
        /\ verification_level = "basic" => ~semantic_result.ran
        /\ verification_level = "semantic" =>
             /\ semantic_result.ran
             /\ final_result.error_descriptions = semantic_result.issues
             /\ final_result.has_hallucination =
                    combine_has(semantic_result.issues,
                                semantic_result.confidence < threshold)
        /\ verification_level \notin {"basic", "semantic"} =>
             (basic_result.ran /\ semantic_result.ran)

\* the semantic check of this call cannot be made or gives no score
SemanticCheckFails == api_outcome.kind # "score"

\* C19: a semantic layer whose check failed has confidence 0.5 and a
\* semantic issue, which is in the issue list of the returned result, and
\* the failure does not raise out of verify_answer.
C19_SemanticBestEffort ==
    (semantic_result.ran /\ SemanticCheckFails) =>
        /\ semantic_result.confidence = Neutral
        /\ semantic_result.issues # << >>
        /\ (fc_pc = "raised" => content_missing)
        /\ Returned =>
             \E i \in DOMAIN final_result.error_descriptions :
                 final_result.error_descriptions[i] \in
                     {"api_failed", "semantic_exception"}

\* calls of llm_inference made inside one call of correct_answer: one when
\* the generator was reached (text or error text came back), none when the
\* call raised or fell back before reaching it
GeneratorCalls(c) == IF c.out \in {"text", "llm_error"} THEN 1 ELSE 0

RECURSIVE SumGeneratorCalls(_)
SumGeneratorCalls(cs) ==
    IF cs = << >> THEN 0
    ELSE GeneratorCalls(cs[1]) + SumGeneratorCalls(Tail(cs))

\* C24: every call of correct_answer makes exactly one generator call, and
\* in a finished run the correction generator calls are as many as the
\* records of the returned history.
C24_OneAttemptPerRound ==
    Done =>
        /\ \A i \in DOMAIN calls :
               calls[i].op = "correct" => GeneratorCalls(calls[i]) = 1
        /\ SumGeneratorCalls(CallsOf("correct")) =
               Len(result.correction_history)

\* the steps of the run so far, in order: the calls to the retriever, the
\* generator (initial answer), the verifier and the corrector
Steps ==
    SelectSeq(calls,
        LAMBDA c : c.op \in {"retrieve", "generate", "verify", "correct"})

\* RETRIEVING, GENERATING, VERIFYING, (CORRECTING, VERIFYING)*
InStateOrder(s) ==
    /\ Len(s) >= 3
    /\ Len(s) % 2 = 1
    /\ s[1].op = "retrieve"
    /\ s[2].op = "generate"
    /\ \A i \in 3..Len(s) :
           s[i].op = IF i % 2 = 1 THEN "verify" ELSE "correct"

\* C26: retrieval and initial generation happen at most once, and once each
\* in a run that got evidence; generation only after a non-empty retrieval;
\* a correction only right after a verification pass that reported an
\* issue; and the steps of a finished run in which nothing raised are
\* RETRIEVING alone (no evidence) or RETRIEVING, GENERATING, VERIFYING,
\* (CORRECTING, VERIFYING)*.
C26_StepOrder ==
    /\ NumCalls("retrieve") <= 1
    /\ NumCalls("generate") <= 1
    /\ \A i \in DOMAIN Steps :
          /\ Steps[i].op = "generate" =>
                (i = 2 /\ Steps[1].op = "retrieve" /\ Steps[1].out = "chunks")
          /\ Steps[i].op = "correct" =>
                (i > 1 /\ Steps[i-1].op = "verify"
                       /\ ReportedIssue(Steps[i-1]))
    /\ (Done /\ ~StepRaised) =>
          \/ (Len(Steps) = 1 /\ Steps[1].op = "retrieve"
                /\ Steps[1].out = "empty")
          \/ InStateOrder(Steps)

\* the correct_answer calls of the run that returned a text
ReturnedCorrections ==
    SelectSeq(calls, LAMBDA c : c.op = "correct" /\ c.out # "raise")

\* records numbered 1, 2, ... whose answers are the initial answer and then
\* the texts the corrections returned, in order
IsChain(history, initial_answer) ==
    \A k \in DOMAIN history :
        /\ history[k].round = k
        /\ history[k].answer_before_correction =
               IF k = 1 THEN initial_answer
               ELSE IF k - 1 \in DOMAIN ReturnedCorrections
                    THEN ReturnedCorrections[k - 1].val
                    ELSE <<"NO_SUCH_CORRECTION">>

C28_ExceptionPathResult ==
    (Done /\ StepRaised) =>
        /\ result.final_answer = SystemError(exc)
        /\ result.has_hallucination = FALSE
        /\ result.correction_history = << >>
        /\ result.initial_answer =
               IF NumCalls("generate") = 1
               THEN CallsOf("generate")[1].val ELSE << >>
        /\ result.retrieved_chunks = retrieved_chunks

\* the exception came after a completed correction round and a last
\* verification pass that reported an issue
C28_Witness ==
    /\ Done
    /\ StepRaised
    /\ CompletedRounds >= 1
    /\ correction_history # << >>
    /\ has_hallucination
    /\ ReportedIssue(Last(CallsOf("verify")))
    /\ result.retrieved_chunks # << >>

\* the semantic API call of this verification failed or returned nothing
SemanticCallFails == api_outcome.kind \in ApiFailures \cup {"prompt_error"}

\* at 'semantic' and 'comprehensive' a failed semantic call flags the answer
SemanticFailureFlags ==
    (Returned /\ level_map(verification_level) # "basic"
        /\ SemanticCallFails) =>
        /\ final_result.has_hallucination
        /\ final_result.error_descriptions # << >>

\* every verification pass of the run ended with the semantic failure
\* recorded as an issue
SemanticKeepsFailing ==
    /\ verifier = "verification"
    /\ \A i \in DOMAIN calls :
           calls[i].op = "verify" =>
               (calls[i].out = "caught" /\ calls[i].val # << >>)

\* C29: a run with evidence and a generated answer in which the semantic
\* call failed at every verification pass has every pass flagged and makes
\* exactly max_rounds corrections.
C29_FailingSemanticForcesMaxRounds ==
    (Done /\ retrieved_chunks # << >> /\ NumCalls("generate") = 1
        /\ SemanticKeepsFailing) =>
        NumCalls("correct") = max_correction_rounds

\* the rule checks of the call have run on the text
NumbersChecked == nc_pc = "checked"

\* the string occurs in some chunk
Occurs(str, chunks) ==
    \E c \in DOMAIN chunks :
        \E k \in 0..(Len(chunks[c]) - Len(str)) :
            SubSeq(chunks[c], k + 1, k + Len(str)) = str

\* the characters numbers are written with
NumChars == Digits \cup {".", "%"}

\* the numeric tokens of the text: the places where a run of number
\* characters with a digit in it starts
NumericTokens(text) ==
    {i \in DOMAIN text :
        /\ text[i] \in NumChars
        /\ (i = 1 \/ text[i - 1] \notin NumChars)
        /\ \E j \in i..Len(text) :
              /\ text[j] \in Digits
              /\ \A m \in i..j : text[m] \in NumChars}

\* the text is one integer
IsInteger(text) == text # << >> /\ \A i \in DOMAIN text : text[i] \in Digits

\* C21: the number check reports issues only for numbers that occur in no
\* chunk, at most one issue per numeric token of the answer, and exactly
\* one, with the answer flagged, when the answer is one unsupported integer.
C21_OneIssuePerNumber ==
    /\ NumbersChecked =>
         /\ \A i \in DOMAIN rule_issues.numbers :
                ~Occurs(rule_issues.numbers[i].item, contents)
         /\ Len(rule_issues.numbers) <= Cardinality(NumericTokens(nc_answer))
         /\ (IsInteger(nc_answer) /\ ~Occurs(nc_answer, contents)) =>
                Len(rule_issues.numbers) = 1
    /\ (Returned /\ IsInteger(nc_answer) /\ ~Occurs(nc_answer, contents)) =>
         final_result.has_hallucination

FilteredWords(ws) == {i \in DOMAIN ws : ws[i].len >= 2}

\* the kept words of a sentence found in some chunk
FoundWords(ws) == {i \in FilteredWords(ws) : ws[i].found}

\* C23: a declarative sentence is an issue exactly when the number of its
\* length-filtered words found in the evidence, divided by the number of its
\* length-filtered words, is below 0.3; filtered-out words count in neither.
C23_SupportRatioOverFilteredWords ==
    (/\ cs_pc = "checked"
     /\ key_claims # << >>
     /\ FilteredWords(claim_words) # {})
    => (claim_issues # << >>
        <=> 10 * Cardinality(FoundWords(claim_words))
              < 3 * Cardinality(FilteredWords(claim_words)))

\* C30: _split_text_by_size terminates for every text and every accepted
\* configuration: start strictly increases on every loop iteration, so the
\* loop never takes more iterations than the text has characters.
C30_SplitTerminates ==
    /\ [][(ts_pc = "loop" /\ ts_iter' = ts_iter + 1)
          => ts_start' > ts_start]_vars
    /\ [](ts_iter <= Len(ts_text))

====
